---- MODULE Spec2Model ----
(***************************************************************************)
(* clamsform-core: the validation pipeline (validate_dataframe and         *)
(* validate_dataframe_parallel), the denominator guards (validate_stds,    *)
(* validate_denoms) and the z-score scalers (ZScoreScaler,                 *)
(* ZScoreTransformer).                                                     *)
(*                                                                         *)
(* Numbers.  A table cell that holds a number holds an integer multiple of *)
(* the unit u = 1e-9, so that the program constant 1e-8 is 10 units.  A    *)
(* statistic is kept exactly: a mean as the fraction num/den, a standard   *)
(* deviation (and any other denominator, and a standardized cell) as       *)
(* sign * sqrt(sq_num / sq_den).  Comparisons with 0 and with 1e-8 are     *)
(* then exact integer comparisons.                                         *)
(***************************************************************************)
EXTENDS Integers, Sequences, FiniteSets, TLC

\* ------------------------------------------------------------------------
\* Bounds of the model
\* ------------------------------------------------------------------------
MaxRows == 2
MaxCols == 2

\* ------------------------------------------------------------------------
\* The Table capability (polars DataFrame / Column), as the core reads it
\* ------------------------------------------------------------------------
Num(v) == [k |-> "num", v |-> v]
NaN == [k |-> "nan", v |-> 0]
Inf == [k |-> "inf", v |-> 1]
NegInf == [k |-> "inf", v |-> -1]
Null == [k |-> "null", v |-> 0]
Str == [k |-> "str", v |-> 0]

\* Column names by position (names are unique within a table).
ColumnNames == <<"c1", "c2", "c3", "c4">>

\* The columns the inputs are drawn from: a dtype, the value of every cell
\* but the last, and the value of the last cell.
ColumnKinds ==
    {[dtype |-> "Float64", base |-> Num(0), last |-> l] :
        l \in {Num(0), Num(5), Num(20), NaN, Inf, NegInf, Null}}
    \cup {[dtype |-> "Float64", base |-> NaN, last |-> Null]}
    \cup {[dtype |-> "Float32", base |-> Num(0), last |-> l] :
        l \in {Num(20), NaN}}
    \cup {[dtype |-> "Int32", base |-> Num(0), last |-> l] :
        l \in {Num(20), Null}}
    \cup {[dtype |-> "String", base |-> Str, last |-> l] : l \in {Str, Null}}

MakeColumn(i, kind, n) ==
    [name |-> ColumnNames[i],
     dtype |-> kind.dtype,
     values |-> [r \in 1..n |-> IF r = n THEN kind.last ELSE kind.base]]

\* A table: aligned columns; a table without columns has no rows.  The first
\* column is drawn from `first`, the other columns from `rest`, the number of
\* rows from `heights`.
TablesOf(first, rest, heights) ==
    {[height |-> 0, columns |-> <<>>]}
    \cup UNION {UNION {{[height |-> n,
                         columns |-> [i \in 1..nc |-> MakeColumn(i, ks[i], n)]] :
                            ks \in {f \in [1..nc -> first \cup rest] :
                                       /\ f[1] \in first
                                       /\ \A i \in 2..nc : f[i] \in rest}} :
                       n \in heights} :
                nc \in 1..MaxCols}

Tables == TablesOf(ColumnKinds, ColumnKinds, 0..MaxRows)

shape(df) == <<df.height, Len(df.columns)>>

IsFloat(dtype) == dtype \in {"Float64", "Float32"}
IsNumericDtype(dtype) == dtype \in {"Float64", "Float32", "Int32"}

AnyCell(col, kind) == \E r \in 1..Len(col.values) : col.values[r].k = kind

\* Column::is_nan / Column::is_infinite: the element-wise predicate on a
\* floating column, all-false on another numeric column, and an error
\* (InvalidOperation) on a dtype that does not support it.
is_nan(col) ==
    IF IsFloat(col.dtype) THEN [ok |-> TRUE, any |-> AnyCell(col, "nan")]
    ELSE IF IsNumericDtype(col.dtype) THEN [ok |-> TRUE, any |-> FALSE]
    ELSE [ok |-> FALSE, any |-> FALSE]

\* A variant of is_infinite that tests for positive infinity only.
is_infinite_positive_only(col) ==
    IF IsFloat(col.dtype)
    THEN [ok |-> TRUE, any |-> \E r \in 1..Len(col.values) : col.values[r] = Inf]
    ELSE IF IsNumericDtype(col.dtype) THEN [ok |-> TRUE, any |-> FALSE]
    ELSE [ok |-> FALSE, any |-> FALSE]

is_infinite(col) ==
    IF IsFloat(col.dtype) THEN [ok |-> TRUE, any |-> AnyCell(col, "inf")]
    ELSE IF IsNumericDtype(col.dtype) THEN [ok |-> TRUE, any |-> FALSE]
    ELSE [ok |-> FALSE, any |-> FALSE]

\* Column::is_null: defined for every dtype.
is_null(col) == AnyCell(col, "null")

\* ------------------------------------------------------------------------
\* Results
\* ------------------------------------------------------------------------
\* Vec<String>::join(", ")
RECURSIVE join(_)
join(names) ==
    IF names = <<>> THEN ""
    ELSE IF Len(names) = 1 THEN names[1]
    ELSE names[1] \o ", " \o join(Tail(names))

\* A variant of the name collection that keeps the first offending column only.
names_of_first_only(cols) ==
    IF cols = <<>> THEN <<>> ELSE <<cols[1].name>>

\* .map(|col| col.name().to_string()).collect()
names_of(cols) == [i \in 1..Len(cols) |-> cols[i].name]

Ok ==
    [variant |-> "Ok", rows |-> 0, columns |-> 0, metric |-> "", cols |-> "",
     wrapped |-> ""]
Pending == [Ok EXCEPT !.variant = "pending"]
\* A panic (unwrap on an Err) unwinds through the caller: no value is returned.
Panic == [Ok EXCEPT !.variant = "panic"]
Err(variant, names) == [Ok EXCEPT !.variant = variant, !.cols = join(names)]

IsErr(r) == r.variant \notin {"Ok", "pending", "panic"}
\* A variant of validate_not_empty_df that tests the width instead of the height.
validate_not_empty_df_by_width(df) ==
    IF Len(df.columns) = 0
    THEN [Ok EXCEPT !.variant = "EmptyDataFrameError",
                    !.rows = shape(df)[1], !.columns = shape(df)[2]]
    ELSE Ok

\* ------------------------------------------------------------------------
\* The five checks (crate::validation::errors)
\* ------------------------------------------------------------------------
validate_not_empty_df(df) ==
    IF df.height = 0
    THEN [Ok EXCEPT !.variant = "EmptyDataFrameError",
                    !.rows = shape(df)[1], !.columns = shape(df)[2]]
    ELSE Ok

validate_numeric_columns(df) ==
    LET non_numeric_cols ==
            names_of(SelectSeq(df.columns,
                LAMBDA col : ~(col.dtype \in {"Float64", "Float32"})))
    IN  IF non_numeric_cols # <<>>
        THEN Err("NonNumericError", non_numeric_cols)
        ELSE Ok

\* col.is_nan().unwrap().any(): the unwrap panics when the predicate fails.
validate_nan_values(df) ==
    IF \E i \in 1..Len(df.columns) : ~is_nan(df.columns[i]).ok
    THEN Panic
    ELSE LET nan_cols ==
                 names_of(SelectSeq(df.columns, LAMBDA col : is_nan(col).any))
         IN  IF nan_cols # <<>> THEN Err("NanValuesError", nan_cols) ELSE Ok

validate_infinite_values(df) ==
    IF \E i \in 1..Len(df.columns) : ~is_infinite(df.columns[i]).ok
    THEN Panic
    ELSE LET inf_cols ==
                 names_of(SelectSeq(df.columns, LAMBDA col : is_infinite(col).any))
         IN  IF inf_cols # <<>> THEN Err("InfiniteValuesError", inf_cols) ELSE Ok

validate_missing_values(df) ==
    LET missing_cols ==
            names_of(SelectSeq(df.columns, LAMBDA col : is_null(col)))
    IN  IF missing_cols # <<>>
        THEN Err("MissingValuesError", missing_cols)
        ELSE Ok

\* The same checks in crate::utils::validation_errors (feature_scaling): the
\* predicate checks replace a failed predicate by an all-false mask
\* (unwrap_or_else); the other three checks are the same code.
validate_nan_values_utils(df) ==
    LET nan_cols ==
            names_of(SelectSeq(df.columns,
                LAMBDA col : IF is_nan(col).ok THEN is_nan(col).any ELSE FALSE))
    IN  IF nan_cols # <<>> THEN Err("NanValuesError", nan_cols) ELSE Ok

validate_infinite_values_utils(df) ==
    LET inf_cols ==
            names_of(SelectSeq(df.columns,
                LAMBDA col : IF is_infinite(col).ok THEN is_infinite(col).any
                             ELSE FALSE))
    IN  IF inf_cols # <<>> THEN Err("InfiniteValuesError", inf_cols) ELSE Ok

\* The dtype check of crate::normalization::common::errors: Float64 only.
validate_f64_columns(df) ==
    LET non_numeric_cols ==
            names_of(SelectSeq(df.columns, LAMBDA col : ~(col.dtype = "Float64")))
    IN  IF non_numeric_cols # <<>>
        THEN Err("NonNumericError", non_numeric_cols)
        ELSE Ok

\* The checks in their declared order (the vec! of validate_dataframe_parallel,
\* the statement order of validate_dataframe).
validations ==
    <<"validate_not_empty_df", "validate_numeric_columns", "validate_nan_values",
      "validate_infinite_values", "validate_missing_values">>

\* validation(df) for the i-th check of module m ("validation" or "utils").
RunCheck(m, i, df) ==
    CASE i = 1 -> validate_not_empty_df(df)
      [] i = 2 -> validate_numeric_columns(df)
      [] i = 3 -> IF m = "utils" THEN validate_nan_values_utils(df)
                  ELSE validate_nan_values(df)
      [] i = 4 -> IF m = "utils" THEN validate_infinite_values_utils(df)
                  ELSE validate_infinite_values(df)
      [] i = 5 -> validate_missing_values(df)

\* validate_dataframe as a function: each `?` returns the first error.
RECURSIVE SeqFrom(_, _, _)
SeqFrom(m, i, df) ==
    IF i > Len(validations) THEN Ok
    ELSE IF RunCheck(m, i, df) # Ok THEN RunCheck(m, i, df)
    ELSE SeqFrom(m, i + 1, df)

validate_dataframe(df) == SeqFrom("validation", 1, df)
validate_dataframe_utils(df) == SeqFrom("utils", 1, df)

\* ------------------------------------------------------------------------
\* State
\* ------------------------------------------------------------------------
VARIABLES
    df,          \* the caller's table: the argument of the call
    op,          \* the function called, "idle" before the call
    pc,          \* "idle", "running" or "returned"
    ran,         \* the checks executed by the call so far, in execution order
    results,     \* validate_dataframe_parallel: the collected Vec of results
    ret,         \* the value returned to the caller (Pending until then)
    out,         \* the table returned with Ok, None when none is returned
    metric,      \* the metric label passed to the denominator checks
    mean,        \* self.mean of the scaler: Option<DataFrame>
    std,         \* self.std of the scaler: Option<DataFrame>
    before,      \* history: <<mean, std>> of the scaler when the call was made
    seen,        \* history: the first table validated and what each mode
                 \* returned for it the first time
    other        \* a second ZScoreScaler of the same caller: its fields, the
                 \* fields it had when called, and what it returned

vars ==
    <<df, op, pc, ran, results, ret, out, metric, mean, std, before, seen, other>>

None == <<>>
Some(x) == <<x>>

NoResults == [i \in 1..Len(validations) |-> Pending]

\* The histories before any call.
NoSnapshot == <<None, None>>
NothingSeen == [table |-> None, sequential |-> Pending, parallel |-> Pending]
NoOther ==
    [mean |-> None, std |-> None, before |-> NoSnapshot, ret |-> Pending,
     out |-> None]

ModuleOf(o) == IF o = "validate_dataframe_utils" THEN "utils" ELSE "validation"

\* ------------------------------------------------------------------------
\* The validation pipeline, one check per step
\* ------------------------------------------------------------------------
\* A caller calls one of the entry points on its table.
Call(o) ==
    /\ pc = "idle"
    /\ op' = o
    /\ pc' = "running"
    /\ UNCHANGED <<df, ran, results, ret, out, metric, mean, std, before, seen, other>>
\* A variant of the step of validate_dataframe without the `?`: every check
\* runs and the result of the last one is returned.
SeqStepResult_no_early_return(m, i, table) ==
    IF i = Len(validations)
    THEN [done |-> TRUE, ret |-> RunCheck(m, i, table)]
    ELSE [done |-> FALSE, ret |-> Pending]

\* A variant of the step of validate_dataframe without the `?` on the first
\* statement: the result of the not-empty check is dropped.
SeqStepResult_first_check_unchecked(m, i, table) ==
    LET r == RunCheck(m, i, table)
    IN  IF r # Ok /\ i # 1 THEN [done |-> TRUE, ret |-> r]
        ELSE IF i = Len(validations) THEN [done |-> TRUE, ret |-> Ok]
        ELSE [done |-> FALSE, ret |-> Pending]

\* validate_dataframe: the next check in statement order; `?` returns its
\* error at once, the fifth Ok falls through to Ok(()).
SeqStepResult(m, i, table) ==
    LET r == RunCheck(m, i, table)
    IN  IF r # Ok THEN [done |-> TRUE, ret |-> r]
        ELSE IF i = Len(validations) THEN [done |-> TRUE, ret |-> Ok]
        ELSE [done |-> FALSE, ret |-> Pending]

SeqStep ==
    /\ pc = "running"
    /\ op \in {"validate_dataframe", "validate_dataframe_utils"}
    /\ LET i == Len(ran) + 1
           s == SeqStepResult(ModuleOf(op), i, df)
       IN  /\ ran' = Append(ran, i)
           /\ ret' = s.ret
           /\ pc' = IF s.done THEN "returned" ELSE "running"
    /\ UNCHANGED <<df, op, results, out, metric, mean, std, before, seen, other>>

\* validate_dataframe_parallel: par_iter().map(|validation| validation(df)):
\* a worker runs any check that has not run yet and stores its result in the
\* slot of that check.  Nothing cancels a check, so a check may still run
\* after another one has panicked.
ParRun(i) ==
    /\ pc = "running"
    /\ op = "validate_dataframe_parallel"
    /\ results[i] = Pending
    /\ ran' = Append(ran, i)
    /\ results' = [results EXCEPT ![i] = RunCheck("validation", i, df)]
    /\ UNCHANGED <<df, op, pc, ret, out, metric, mean, std, before, seen, other>>

\* A variant of the aggregation in which the check that finished first wins:
\* the first error in the order in which the checks ran.
FirstErr_in_completion_order(rs, i) ==
    LET failed == SelectSeq(ran, LAMBDA j : rs[j] # Ok)
    IN  IF failed = <<>> THEN Ok ELSE rs[failed[1]]

\* results.into_iter().collect::<Result<(), _>>(): the first Err in slot order.
RECURSIVE FirstErr(_, _)
FirstErr(rs, i) ==
    IF i > Len(rs) THEN Ok
    ELSE IF rs[i] # Ok THEN rs[i]
    ELSE FirstErr(rs, i + 1)

\* A variant of the join that returns as soon as a check has failed, without
\* waiting for the checks still to run.
ParJoin_returns_at_first_error ==
    /\ pc = "running"
    /\ op = "validate_dataframe_parallel"
    /\ \/ /\ \E j \in 1..Len(validations) : results[j] = Panic
          /\ ret' = Panic
       \/ \E j \in 1..Len(validations) :
             /\ results[j] \notin {Pending, Panic, Ok}
             /\ ret' = results[j]
       \/ /\ \A j \in 1..Len(validations) : results[j] \notin {Pending, Panic}
          /\ ret' = FirstErr(results, 1)
    /\ pc' = "returned"
    /\ UNCHANGED <<df, op, ran, results, out, metric, mean, std, before, seen, other>>

\* The join: collect() returns once every check has run; a panic in a worker
\* is resumed in the caller instead, whether or not the other checks ran.
ParJoin ==
    /\ pc = "running"
    /\ op = "validate_dataframe_parallel"
    /\ \/ /\ \E j \in 1..Len(validations) : results[j] = Panic
          /\ ret' = Panic
       \/ /\ \A j \in 1..Len(validations) : results[j] \notin {Pending, Panic}
          /\ ret' = FirstErr(results, 1)
    /\ pc' = "returned"
    /\ UNCHANGED <<df, op, ran, results, out, metric, mean, std, before, seen, other>>

\* One check called on its own (each is a pub fn).
SingleChecks ==
    {"validate_not_empty_df", "validate_numeric_columns", "validate_nan_values",
     "validate_infinite_values", "validate_missing_values",
     "validate_nan_values_utils", "validate_infinite_values_utils",
     "validate_f64_columns"}

ApplySingle(o, table) ==
    CASE o = "validate_not_empty_df" -> validate_not_empty_df(table)
      [] o = "validate_numeric_columns" -> validate_numeric_columns(table)
      [] o = "validate_nan_values" -> validate_nan_values(table)
      [] o = "validate_infinite_values" -> validate_infinite_values(table)
      [] o = "validate_missing_values" -> validate_missing_values(table)
      [] o = "validate_nan_values_utils" -> validate_nan_values_utils(table)
      [] o = "validate_infinite_values_utils" ->
            validate_infinite_values_utils(table)
      [] o = "validate_f64_columns" -> validate_f64_columns(table)

SingleCheck ==
    /\ pc = "running"
    /\ op \in SingleChecks
    /\ ret' = ApplySingle(op, df)
    /\ pc' = "returned"
    /\ UNCHANGED <<df, op, ran, results, out, metric, mean, std, before, seen, other>>

ValidationOps ==
    {"validate_dataframe", "validate_dataframe_utils",
     "validate_dataframe_parallel"} \cup SingleChecks

InitValidation ==
    /\ df \in Tables
    /\ op = "idle"
    /\ pc = "idle"
    /\ ran = <<>>
    /\ results = NoResults
    /\ ret = Pending
    /\ out = None
    /\ metric = ""
    /\ mean = None
    /\ std = None
    /\ before = NoSnapshot
    /\ seen = NothingSeen
    /\ other = NoOther

CallValidation == \E o \in ValidationOps : Call(o)
ParStep == \E i \in 1..Len(validations) : ParRun(i)

NextValidation ==
    \/ CallValidation
    \/ SeqStep
    \/ ParStep
    \/ ParJoin
    \/ SingleCheck

SpecValidation == InitValidation /\ [][NextValidation]_vars

\* ------------------------------------------------------------------------
\* Claims about the validation pipeline (SpecValidation)
\* ------------------------------------------------------------------------
Sequential == {"validate_dataframe", "validate_dataframe_utils"}

\* The checks that fail on a table when each is called on its own.
Failing(m, table) == {i \in 1..Len(validations) : RunCheck(m, i, table) # Ok}
Least(S) == CHOOSE i \in S : \A j \in S : i <= j

\* C1: validate_dataframe runs the five checks in the order not-empty,
\* numeric-dtype, no-NaN, no-infinite, no-missing; no check runs after a check
\* that failed; and the value returned is the error of the first check of that
\* order that fails on the table (Ok when none fails).
C1_SequentialShortCircuit ==
    op \in Sequential =>
        LET m == ModuleOf(op)
            F == Failing(m, df)
        IN  /\ \A k \in 1..Len(ran) : ran[k] = k
            /\ \A k \in 1..Len(ran) : k < Len(ran) => k \notin F
            /\ pc = "returned" =>
                  IF F = {}
                  THEN ret = Ok /\ Len(ran) = Len(validations)
                  ELSE /\ ret = RunCheck(m, Least(F), df)
                       /\ Len(ran) = Least(F)

\* C1 witness: validate_dataframe returned the NaN error of a table on which
\* the missing-value check fails too, and ran three checks only.
C1_Witness ==
    /\ op = "validate_dataframe"
    /\ pc = "returned"
    /\ ret.variant = "NanValuesError"
    /\ validate_missing_values(df) # Ok
    /\ ran = <<1, 2, 3>>

\* C2: for every table validate_dataframe_parallel returns what
\* validate_dataframe returns (Ok, or the same error with the same column
\* list), and does not panic.
C2_ParallelEqualsSequential ==
    (op = "validate_dataframe_parallel" /\ pc = "returned") =>
        ret = validate_dataframe(df)

C10_NumericDtypeCheck ==
    (op \in {"validate_numeric_columns", "validate_f64_columns"}
     /\ pc = "returned") =>
        LET offenders ==
                SelectSeq(df.columns,
                    LAMBDA col : col.dtype # "Float32" /\ col.dtype # "Float64")
        IN  IF offenders = <<>> THEN ret = Ok
            ELSE /\ ret.variant = "NonNumericError"
                 /\ ret.cols = join(names_of(offenders))

\* The columns of a table that violate the check an error variant stands for:
\* a dtype other than Float32 / Float64, a NaN cell, an infinite cell, a null.
Offenders(variant, table) ==
    SelectSeq(table.columns,
        LAMBDA col :
            CASE variant = "NonNumericError" ->
                    col.dtype # "Float32" /\ col.dtype # "Float64"
              [] variant = "NanValuesError" ->
                    \E r \in 1..Len(col.values) : col.values[r] = NaN
              [] variant = "InfiniteValuesError" ->
                    \E r \in 1..Len(col.values) : col.values[r] \in {Inf, NegInf}
              [] variant = "MissingValuesError" ->
                    \E r \in 1..Len(col.values) : col.values[r] = Null)

\* The comma-joined names of a sequence of columns, by position.
RECURSIVE Listing(_)
Listing(cols) ==
    IF cols = <<>> THEN ""
    ELSE IF Len(cols) = 1 THEN cols[1].name
    ELSE cols[1].name \o ", " \o Listing(Tail(cols))

ListingVariants ==
    {"NonNumericError", "NanValuesError", "InfiniteValuesError",
     "MissingValuesError"}

\* The variant each column-listing check returns.
VariantOf(o) ==
    CASE o = "validate_numeric_columns" -> "NonNumericError"
      [] o \in {"validate_nan_values", "validate_nan_values_utils"} ->
            "NanValuesError"
      [] o \in {"validate_infinite_values", "validate_infinite_values_utils"} ->
            "InfiniteValuesError"
      [] o = "validate_missing_values" -> "MissingValuesError"

ListingChecks ==
    {"validate_numeric_columns", "validate_nan_values",
     "validate_nan_values_utils", "validate_infinite_values",
     "validate_infinite_values_utils", "validate_missing_values"}

\* C11: a column-listing error returned by a check, or by validate_dataframe
\* in either mode, lists exactly the columns that violate that check, each
\* once, in table order; and a check that returns on its own returns such an
\* error whenever a column violates it.
C11_AllOffendersListed ==
    (op \in ValidationOps \ {"validate_f64_columns"} /\ pc = "returned") =>
        /\ ret.variant \in ListingVariants =>
              /\ Offenders(ret.variant, df) # <<>>
              /\ ret.cols = Listing(Offenders(ret.variant, df))
        /\ (op \in ListingChecks /\ ret # Panic) =>
              (ret = Ok <=> Offenders(VariantOf(op), df) = <<>>)

\* C11 witness: validate_dataframe returned the NaN error naming both columns
\* of a table whose two columns hold a NaN.
C11_Witness ==
    /\ op = "validate_dataframe"
    /\ pc = "returned"
    /\ Len(Offenders("NanValuesError", df)) = 2
    /\ ret.variant = "NanValuesError"
    /\ ret.cols = "c1, c2"

\* C12: when the NaN or infinity predicate cannot be evaluated on a column
\* (its dtype does not support it), the NaN check and the infinity check do
\* not abort: they return Ok or their error for the columns that do hold a
\* NaN / an infinite value, as if that column had none.
C12_FailOpenPredicate ==
    (/\ op \in {"validate_nan_values", "validate_nan_values_utils",
                "validate_infinite_values", "validate_infinite_values_utils"}
     /\ pc = "returned"
     /\ \E i \in 1..Len(df.columns) : df.columns[i].dtype = "String")
    => /\ ret # Panic
       /\ IF Offenders(VariantOf(op), df) = <<>> THEN ret = Ok
          ELSE /\ ret.variant = VariantOf(op)
               /\ ret.cols = Listing(Offenders(VariantOf(op), df))

\* C18: validate_dataframe_parallel returns a value only after each of the
\* five checks has run once and stored its result, also when a check that ran
\* earlier failed, and the value is the first error in the declared order.
C18_ParallelJoin ==
    (op = "validate_dataframe_parallel" /\ pc = "returned" /\ ret # Panic) =>
        /\ Len(ran) = Len(validations)
        /\ \A i \in 1..Len(validations) :
              /\ \E k \in 1..Len(ran) : ran[k] = i
              /\ results[i] # Pending
        /\ LET failed == {i \in 1..Len(validations) : results[i] # Ok}
           IN  ret = IF failed = {} THEN Ok ELSE results[Least(failed)]

\* C18 witness: the not-empty check ran first and failed, the other four
\* checks ran after it, and then the call returned its error.
C18_Witness ==
    /\ op = "validate_dataframe_parallel"
    /\ pc = "returned"
    /\ ran[1] = 1
    /\ Len(ran) = 5
    /\ results[1].variant = "EmptyDataFrameError"
    /\ ret = results[1]

\* ------------------------------------------------------------------------
\* The denominator guards
\* ------------------------------------------------------------------------
\* A statistic: sign * sqrt(sq_num / sq_den), in units of 1e-9.
Stat(sign, n, d) == [k |-> "num", sign |-> sign, sq_num |-> n, sq_den |-> d]
NullStat == [k |-> "null", sign |-> 0, sq_num |-> 0, sq_den |-> 1]
NaNStat == [k |-> "nan", sign |-> 0, sq_num |-> 0, sq_den |-> 1]
Sgn(v) == IF v > 0 THEN 1 ELSE IF v < 0 THEN -1 ELSE 0
\* The statistic that equals v units.
StatOf(v) == Stat(Sgn(v), v * v, 1)

\* const NEAR_ZERO_THRESHOLD: f64 = 1e-8, in units of 1e-9.
NEAR_ZERO_THRESHOLD == 10

\* match col.get(0).ok() { Some(AnyValue::Float64(0.0)) | Some(AnyValue::Float32(0.0)) }
MatchesZero(col) ==
    /\ Len(col.values) >= 1
    /\ IsFloat(col.dtype)
    /\ col.values[1].k = "num"
    /\ col.values[1].sq_num = 0

\* Some(AnyValue::Float64(val)) if val.abs() < NEAR_ZERO_THRESHOLD (and the
\* same for Float32 after the lossless cast to f64).
MatchesNearZero(col) ==
    /\ Len(col.values) >= 1
    /\ IsFloat(col.dtype)
    /\ col.values[1].k = "num"
    /\ col.values[1].sq_num <
          NEAR_ZERO_THRESHOLD * NEAR_ZERO_THRESHOLD * col.values[1].sq_den

\* crate::scaling::standardization::errors
validate_non_zero_std(row) ==
    LET zero_std_cols ==
            names_of(SelectSeq(row.columns, LAMBDA col : MatchesZero(col)))
    IN  IF zero_std_cols # <<>>
        THEN Err("ZeroStandardDeviationError", zero_std_cols)
        ELSE Ok

validate_near_zero_std(row) ==
    LET zero_std_cols ==
            names_of(SelectSeq(row.columns, LAMBDA col : MatchesNearZero(col)))
    IN  IF zero_std_cols # <<>>
        THEN Err("ZeroStandardDeviationError", zero_std_cols)
        ELSE Ok
\* A variant of validate_stds that drops the results of the two checks.
validate_stds_results_dropped(row) == Ok

validate_stds(row) ==
    IF validate_non_zero_std(row) # Ok THEN validate_non_zero_std(row)
    ELSE IF validate_near_zero_std(row) # Ok THEN validate_near_zero_std(row)
    ELSE Ok

\* crate::scaling::standardization::error (scaling_err! builds the error from
\* the metric label and the joined column names)
scaling_err(variant, m, names) ==
    [Ok EXCEPT !.variant = variant, !.metric = m, !.cols = join(names)]

validate_non_zero_denom(row, m) ==
    LET zero_cols ==
            names_of(SelectSeq(row.columns, LAMBDA col : MatchesZero(col)))
    IN  IF zero_cols # <<>>
        THEN scaling_err("ZeroDenominatorError", m, zero_cols)
        ELSE Ok

validate_near_zero_denom(row, m) ==
    LET near_zero_cols ==
            names_of(SelectSeq(row.columns, LAMBDA col : MatchesNearZero(col)))
    IN  IF near_zero_cols # <<>>
        THEN scaling_err("NearZeroDenominatorError", m, near_zero_cols)
        ELSE Ok
\* A variant of validate_denoms that runs the near-zero check first.
validate_denoms_near_zero_first(row, m) ==
    IF validate_near_zero_denom(row, m) # Ok THEN validate_near_zero_denom(row, m)
    ELSE IF validate_non_zero_denom(row, m) # Ok
    THEN validate_non_zero_denom(row, m)
    ELSE Ok

validate_denoms(row, m) ==
    IF validate_non_zero_denom(row, m) # Ok THEN validate_non_zero_denom(row, m)
    ELSE IF validate_near_zero_denom(row, m) # Ok
    THEN validate_near_zero_denom(row, m)
    ELSE Ok

\* The one-row tables the guards are called on: per column a dtype and the
\* value of its only cell (0, +-5e-9, +-1e-8, 2e-8, null, NaN).
DenomKinds ==
    {[dtype |-> "Float64", cell |-> c] :
        c \in {StatOf(0), StatOf(5), StatOf(-5), StatOf(10), StatOf(-10),
               StatOf(20), NullStat, NaNStat}}
    \cup {[dtype |-> "Float32", cell |-> c] : c \in {StatOf(0), StatOf(5), StatOf(20)}}
    \cup {[dtype |-> "Int32", cell |-> StatOf(0)]}

DenomRows ==
    UNION {{[height |-> 1,
             columns |-> [i \in 1..nc |->
                            [name |-> ColumnNames[i], dtype |-> ks[i].dtype,
                             values |-> <<ks[i].cell>>]]] :
                ks \in [1..nc -> DenomKinds]} :
           nc \in 0..MaxCols}

Metrics == {"std", "standard deviation"}

DenomOps ==
    {"validate_non_zero_std", "validate_near_zero_std", "validate_stds",
     "validate_non_zero_denom", "validate_near_zero_denom", "validate_denoms"}

ApplyDenom(o, row, m) ==
    CASE o = "validate_non_zero_std" -> validate_non_zero_std(row)
      [] o = "validate_near_zero_std" -> validate_near_zero_std(row)
      [] o = "validate_stds" -> validate_stds(row)
      [] o = "validate_non_zero_denom" -> validate_non_zero_denom(row, m)
      [] o = "validate_near_zero_denom" -> validate_near_zero_denom(row, m)
      [] o = "validate_denoms" -> validate_denoms(row, m)

\* A caller calls one guard on its one-row table (with a metric label).
CallDenom ==
    /\ pc = "idle"
    /\ \E o \in DenomOps : op' = o
    /\ \E m \in Metrics : metric' = m
    /\ pc' = "running"
    /\ UNCHANGED <<df, ran, results, ret, out, mean, std, before, seen, other>>

DenomCheck ==
    /\ pc = "running"
    /\ op \in DenomOps
    /\ ret' = ApplyDenom(op, df, metric)
    /\ pc' = "returned"
    /\ UNCHANGED <<df, op, ran, results, out, metric, mean, std, before, seen, other>>

InitDenoms ==
    /\ df \in DenomRows
    /\ op = "idle"
    /\ pc = "idle"
    /\ ran = <<>>
    /\ results = NoResults
    /\ ret = Pending
    /\ out = None
    /\ metric = ""
    /\ mean = None
    /\ std = None
    /\ before = NoSnapshot
    /\ seen = NothingSeen
    /\ other = NoOther

NextDenoms ==
    \/ CallDenom
    \/ DenomCheck

SpecDenoms == InitDenoms /\ [][NextDenoms]_vars

\* ------------------------------------------------------------------------
\* Claims about the denominator guards (SpecDenoms)
\* ------------------------------------------------------------------------
\* The value of a one-row column in units of 1e-9, for a floating column that
\* holds a whole number of units.
ISqrt(n) == CHOOSE r \in 0..n : r * r = n
HasValue(col) ==
    IsFloat(col.dtype) /\ col.values[1].k = "num" /\ col.values[1].sq_den = 1
ValueOf(col) == col.values[1].sign * ISqrt(col.values[1].sq_num)
Abs(v) == IF v < 0 THEN -v ELSE v

ValueIsZero(col) == HasValue(col) /\ ValueOf(col) = 0
ValueIsBelowThreshold(col) == HasValue(col) /\ Abs(ValueOf(col)) < 10

\* C8: a denominator that is not 0 and has absolute value below 1e-8, in a
\* row without a column that is exactly 0, makes the near-zero check return
\* the near-zero variant, for the check that standardize uses (validate_stds,
\* validate_near_zero_std) and for validate_near_zero_denom alike.
C8_NearZeroVariant ==
    (/\ op \in {"validate_near_zero_std", "validate_stds",
                "validate_near_zero_denom", "validate_denoms"}
     /\ pc = "returned"
     /\ \E i \in 1..Len(df.columns) :
            ValueIsBelowThreshold(df.columns[i]) /\ ~ValueIsZero(df.columns[i])
     /\ \A i \in 1..Len(df.columns) : ~ValueIsZero(df.columns[i]))
    => ret.variant \in {"NearZeroDenominatorError",
                        "NearZeroStandardDeviationError"}

\* C9: validate_denoms returns ZeroDenominatorError listing exactly the columns
\* equal to 0 when there is one; otherwise NearZeroDenominatorError listing
\* exactly the columns with |value| < 1e-8 when there is one; otherwise Ok.
\* The lists are in table order, comma-joined, with the metric label given.
C9_ValidateDenoms ==
    (op = "validate_denoms" /\ pc = "returned") =>
        LET zero == SelectSeq(df.columns, LAMBDA col : ValueIsZero(col))
            near == SelectSeq(df.columns, LAMBDA col : ValueIsBelowThreshold(col))
        IN  IF zero # <<>>
            THEN ret = [Ok EXCEPT !.variant = "ZeroDenominatorError",
                                  !.metric = metric,
                                  !.cols = join(names_of(zero))]
            ELSE IF near # <<>>
            THEN ret = [Ok EXCEPT !.variant = "NearZeroDenominatorError",
                                  !.metric = metric,
                                  !.cols = join(names_of(near))]
            ELSE ret = Ok

\* C9 witness: validate_denoms on the row c1 = -5e-9, c2 = 1e-8 returned
\* NearZeroDenominatorError naming c1 only.
C9_Witness ==
    /\ op = "validate_denoms"
    /\ pc = "returned"
    /\ Len(df.columns) = 2
    /\ HasValue(df.columns[1]) /\ ValueOf(df.columns[1]) = -5
    /\ HasValue(df.columns[2]) /\ ValueOf(df.columns[2]) = 10
    /\ ret.variant = "NearZeroDenominatorError"
    /\ ret.cols = "c1"

\* ------------------------------------------------------------------------
\* The reducers of the Table capability: all().mean(), all().std(1)
\* ------------------------------------------------------------------------
RECURSIVE SumOf(_)
SumOf(cells) == IF cells = <<>> THEN 0 ELSE cells[1].v + SumOf(Tail(cells))

RECURSIVE SumSqOf(_)
SumSqOf(cells) ==
    IF cells = <<>> THEN 0 ELSE cells[1].v * cells[1].v + SumSqOf(Tail(cells))

NonNull(col) == SelectSeq(col.values, LAMBDA c : c.k # "null")
HasKind(cells, kind) == \E r \in 1..Len(cells) : cells[r].k = kind

\* n * (n - 1) * variance = n * sum(x^2) - sum(x)^2
SquaredDeviations(cells) ==
    Len(cells) * SumSqOf(cells) - SumOf(cells) * SumOf(cells)

\* A mean: the fraction num / den; nulls are skipped, a column without values
\* or of a dtype without a mean gives null, NaN and infinities propagate.
NullMean == [k |-> "null", num |-> 0, den |-> 1]
MeanCell(col) ==
    LET xs == NonNull(col)
    IN  IF ~IsNumericDtype(col.dtype) \/ xs = <<>> THEN NullMean
        ELSE IF HasKind(xs, "nan") THEN [NullMean EXCEPT !.k = "nan"]
        ELSE IF HasKind(xs, "inf") THEN [NullMean EXCEPT !.k = "inf"]
        ELSE [k |-> "num", num |-> SumOf(xs), den |-> Len(xs)]

\* The degrees of freedom removed by std(1).
ddof == 1

\* A variant of the standard deviation with the population divisor n.
StdCell_population(col) ==
    LET xs == NonNull(col)
        n == Len(xs)
    IN  IF ~IsNumericDtype(col.dtype) \/ n = 0 THEN NullStat
        ELSE IF HasKind(xs, "nan") \/ HasKind(xs, "inf") THEN NaNStat
        ELSE Stat(Sgn(SquaredDeviations(xs)), SquaredDeviations(xs), n * n)

\* A sample standard deviation: sqrt(sum of squared deviations / (n - ddof)),
\* null when n <= ddof.
StdCell(col) ==
    LET xs == NonNull(col)
        n == Len(xs)
    IN  IF ~IsNumericDtype(col.dtype) \/ n <= ddof THEN NullStat
        ELSE IF HasKind(xs, "nan") \/ HasKind(xs, "inf") THEN NaNStat
        ELSE Stat(Sgn(SquaredDeviations(xs)), SquaredDeviations(xs),
                  n * (n - ddof))

\* (x - mean) / std of one cell of a column of numbers: null when the std is
\* null, 0 / 0 = NaN when the std is 0.
StandardizedCell(col, r) ==
    LET n == Len(col.values)
        d == n * col.values[r].v - SumOf(col.values)
        q == SquaredDeviations(col.values)
    IN  IF n <= ddof THEN NullStat
        ELSE IF q = 0 THEN NaNStat
        ELSE Stat(Sgn(d), d * d * (n - ddof), n * q)

\* df.clone().lazy().select([all().mean()]).collect()
MeanRow(table) ==
    [height |-> 1,
     columns |-> [i \in 1..Len(table.columns) |->
                    [name |-> table.columns[i].name,
                     dtype |-> table.columns[i].dtype,
                     values |-> <<MeanCell(table.columns[i])>>]]]
\* df.clone().lazy().select([all().std(1)]).collect()
StdRow(table) ==
    [height |-> 1,
     columns |-> [i \in 1..Len(table.columns) |->
                    [name |-> table.columns[i].name,
                     dtype |-> table.columns[i].dtype,
                     values |-> <<StdCell(table.columns[i])>>]]]
\* A variant of the standardized table that holds the first column only.
Standardized_first_column_only(table) ==
    [height |-> table.height,
     columns |-> [i \in 1..(IF Len(table.columns) > 1 THEN 1
                            ELSE Len(table.columns)) |->
                    [name |-> table.columns[i].name,
                     dtype |-> table.columns[i].dtype,
                     values |-> [r \in 1..table.height |->
                                   StandardizedCell(table.columns[i], r)]]]]

\* df.clone().lazy().select([(all() - all().mean()) / all().std(1)]).collect()
Standardized(table) ==
    [height |-> table.height,
     columns |-> [i \in 1..Len(table.columns) |->
                    [name |-> table.columns[i].name,
                     dtype |-> table.columns[i].dtype,
                     values |-> [r \in 1..table.height |->
                                   StandardizedCell(table.columns[i], r)]]]]

\* ------------------------------------------------------------------------
\* ZScoreScaler (crate::scaling::standardization::z_score)
\* ------------------------------------------------------------------------
\* From<ValidationError> for ScalingError (#[from]): the `?` wraps the error.
FromValidation(e) == [e EXCEPT !.wrapped = "ValidationError"]
PolarsError == [Ok EXCEPT !.variant = "PolarsError"]

\* Where a collect() of the collaborator fails in a call, if anywhere.
Faults == {"none", "mean", "std", "out"}

\* A variant of standardize that fits once: a scaler that holds statistics
\* keeps them and standardizes the table with its own statistics as before.
standardize_keeps_earlier_statistics(m0, s0, table, fault) ==
    LET v == validate_dataframe(table)
        m1 == IF m0 # None THEN m0 ELSE Some(MeanRow(table))
        s1 == IF s0 # None THEN s0 ELSE Some(StdRow(table))
    IN  IF v # Ok
        THEN [mean |-> m0, std |-> s0, ret |-> FromValidation(v), out |-> None]
        ELSE IF fault = "mean"
        THEN [mean |-> m0, std |-> s0, ret |-> PolarsError, out |-> None]
        ELSE IF fault = "std"
        THEN [mean |-> m1, std |-> s0, ret |-> PolarsError, out |-> None]
        ELSE IF validate_stds(StdRow(table)) # Ok
        THEN [mean |-> m1, std |-> s1, ret |-> validate_stds(StdRow(table)),
              out |-> None]
        ELSE IF fault = "out"
        THEN [mean |-> m1, std |-> s1, ret |-> PolarsError, out |-> None]
        ELSE [mean |-> m1, std |-> s1, ret |-> Ok,
              out |-> Some(Standardized(table))]

\* A variant of standardize that computes and stores the statistics before it
\* validates the table.
standardize_validation_after_statistics(m0, s0, table, fault) ==
    LET v == validate_dataframe(table)
        m1 == Some(MeanRow(table))
        s1 == Some(StdRow(table))
    IN  IF fault = "mean"
        THEN [mean |-> m0, std |-> s0, ret |-> PolarsError, out |-> None]
        ELSE IF fault = "std"
        THEN [mean |-> m1, std |-> s0, ret |-> PolarsError, out |-> None]
        ELSE IF v # Ok
        THEN [mean |-> m1, std |-> s1, ret |-> FromValidation(v), out |-> None]
        ELSE IF validate_stds(s1[1]) # Ok
        THEN [mean |-> m1, std |-> s1, ret |-> validate_stds(s1[1]),
              out |-> None]
        ELSE IF fault = "out"
        THEN [mean |-> m1, std |-> s1, ret |-> PolarsError, out |-> None]
        ELSE [mean |-> m1, std |-> s1, ret |-> Ok,
              out |-> Some(Standardized(table))]

\* A variant of standardize in which a scaler that holds statistics takes the
\* table as validated before and does not validate it again.
standardize_validates_once(m0, s0, table, fault) ==
    LET v == IF m0 # None /\ s0 # None THEN Ok ELSE validate_dataframe(table)
        m1 == Some(MeanRow(table))
        s1 == Some(StdRow(table))
    IN  IF v # Ok
        THEN [mean |-> m0, std |-> s0, ret |-> FromValidation(v), out |-> None]
        ELSE IF fault = "mean"
        THEN [mean |-> m0, std |-> s0, ret |-> PolarsError, out |-> None]
        ELSE IF fault = "std"
        THEN [mean |-> m1, std |-> s0, ret |-> PolarsError, out |-> None]
        ELSE IF validate_stds(s1[1]) # Ok
        THEN [mean |-> m1, std |-> s1, ret |-> validate_stds(s1[1]),
              out |-> None]
        ELSE IF fault = "out"
        THEN [mean |-> m1, std |-> s1, ret |-> PolarsError, out |-> None]
        ELSE [mean |-> m1, std |-> s1, ret |-> Ok,
              out |-> Some(Standardized(table))]

\* ZScoreScaler::standardize on a scaler with the given fields: the fields
\* after the call, the value returned and the table returned.
standardize(m0, s0, table, fault) ==
    LET v == validate_dataframe(table)
        m1 == Some(MeanRow(table))
        s1 == Some(StdRow(table))
    IN  IF v # Ok
        THEN [mean |-> m0, std |-> s0, ret |-> FromValidation(v), out |-> None]
        ELSE IF fault = "mean"
        THEN [mean |-> m0, std |-> s0, ret |-> PolarsError, out |-> None]
        ELSE IF fault = "std"
        THEN [mean |-> m1, std |-> s0, ret |-> PolarsError, out |-> None]
        ELSE IF validate_stds(s1[1]) # Ok
        THEN [mean |-> m1, std |-> s1, ret |-> validate_stds(s1[1]),
              out |-> None]
        ELSE IF fault = "out"
        THEN [mean |-> m1, std |-> s1, ret |-> PolarsError, out |-> None]
        ELSE [mean |-> m1, std |-> s1, ret |-> Ok,
              out |-> Some(Standardized(table))]

\* The tables the scalers are called on: zero, one or two rows; a first column
\* that is well spread, nearly constant, constant, holds a NaN, or is not
\* numeric; further columns that are well spread or constant.
ScalerKinds ==
    {[dtype |-> "Float64", base |-> Num(0), last |-> Num(20)],
     [dtype |-> "Float64", base |-> Num(0), last |-> Num(5)],
     [dtype |-> "Float32", base |-> Num(0), last |-> Num(0)],
     [dtype |-> "Float64", base |-> Num(0), last |-> NaN],
     [dtype |-> "String", base |-> Str, last |-> Str]}

ScalerRestKinds ==
    {[dtype |-> "Float64", base |-> Num(0), last |-> Num(20)],
     [dtype |-> "Float32", base |-> Num(0), last |-> Num(0)]}

ScalerHeights == {0, 1, 2}

ScalerTables == TablesOf(ScalerKinds, ScalerRestKinds, ScalerHeights)

EmptyTable == [height |-> 0, columns |-> <<>>]

\* The fixture of the scaler's tests, feature1 = [1, 2, 3, 4, 5] and
\* feature2 = [10, 20, 30, 40, 50], scaled by 1e-8 (1.0 is written as 10
\* units) so that its sums of squares stay within 32-bit integers.  Mean and
\* standard deviation scale with the cells: the mean 3.0 is 30 units, the
\* squared standard deviation 2.5 is 250 squared units.
create_valid_df ==
    [height |-> 5,
     columns |-> <<[name |-> "feature1", dtype |-> "Float64",
                    values |-> [r \in 1..5 |-> Num(10 * r)]],
                   [name |-> "feature2", dtype |-> "Float64",
                    values |-> [r \in 1..5 |-> Num(100 * r)]]>>]

ScalerInputs == ScalerTables \cup {create_valid_df}

\* ZScoreScaler::new() and Default::default() (Self::new())
new == [mean |-> None, std |-> None]
default == new

\* ZScoreScaler::mean(): self.mean.as_ref()
ZScoreScaler_mean(self) == self.mean
\* A variant of std() that reads the other field.
ZScoreScaler_std_reads_mean(self) == self.mean

\* ZScoreScaler::std(): self.std.as_ref()
ZScoreScaler_std(self) == self.std

UninitializedScaler == [Ok EXCEPT !.variant = "UninitializedScaler"]

\* (x - mean) / std of one cell for a stored mean and a stored std: null when
\* a statistic is null, x / 0 = +-inf and 0 / 0 = NaN when the std is 0.
AppliedCell(x, m, s) ==
    LET d == x.v * m.den - m.num
    IN  IF m.k = "null" \/ s.k = "null" THEN NullStat
        ELSE IF m.k # "num" \/ s.k # "num" THEN NaNStat
        ELSE IF s.sq_num = 0
        THEN IF d = 0 THEN NaNStat
             ELSE [NaNStat EXCEPT !.k = "inf", !.sign = Sgn(d)]
        ELSE Stat(Sgn(d), d * d * s.sq_den, m.den * m.den * s.sq_num)

\* The table standardized with the stored one-row statistics, column by column.
Applied(mean_row, std_row, table) ==
    [height |-> table.height,
     columns |-> [i \in 1..Len(table.columns) |->
                    [name |-> table.columns[i].name,
                     dtype |-> table.columns[i].dtype,
                     values |-> [r \in 1..table.height |->
                                   AppliedCell(table.columns[i].values[r],
                                               mean_row.columns[i].values[1],
                                               std_row.columns[i].values[1])]]]]
\* A variant of transform that recomputes the statistics from its argument.
ZScoreScaler_transform_recomputed(m0, s0, table, fault) ==
    IF m0 = None \/ s0 = None
    THEN [ret |-> UninitializedScaler, out |-> None]
    ELSE IF validate_dataframe(table) # Ok
    THEN [ret |-> FromValidation(validate_dataframe(table)), out |-> None]
    ELSE IF fault = "out"
            \/ names_of(table.columns) # names_of(m0[1].columns)
            \/ names_of(table.columns) # names_of(s0[1].columns)
    THEN [ret |-> PolarsError, out |-> None]
    ELSE [ret |-> Ok, out |-> Some(Standardized(table))]

\* FeatureScaler::transform(&self, df) of ZScoreScaler: UninitializedScaler
\* while mean / std are None; otherwise the table is validated again and the
\* stored statistics are applied to it.  A table whose columns are not those
\* of the stored rows is a failure of the collaborator.
ZScoreScaler_transform(m0, s0, table, fault) ==
    IF m0 = None \/ s0 = None
    THEN [ret |-> UninitializedScaler, out |-> None]
    ELSE IF validate_dataframe(table) # Ok
    THEN [ret |-> FromValidation(validate_dataframe(table)), out |-> None]
    ELSE IF fault = "out"
            \/ names_of(table.columns) # names_of(m0[1].columns)
            \/ names_of(table.columns) # names_of(s0[1].columns)
    THEN [ret |-> PolarsError, out |-> None]
    ELSE [ret |-> Ok, out |-> Some(Applied(m0[1], s0[1], table))]

\* A caller calls standardize or transform on a table, reset, or an accessor.
CallScaler ==
    /\ pc = "idle"
    /\ \/ op' \in {"standardize", "transform"} /\ df' \in ScalerInputs
       \/ op' \in {"reset", "mean", "std"} /\ df' = EmptyTable
    /\ pc' = "running"
    /\ before' = <<mean, std>>
    /\ UNCHANGED <<ran, results, ret, out, metric, mean, std, seen, other>>

\* A variant of standardize that works in place: the caller's table is
\* overwritten by the standardized one.
Standardize_in_place ==
    /\ pc = "running"
    /\ op = "standardize"
    /\ \E fault \in Faults :
          LET r == standardize(mean, std, df, fault)
          IN  /\ mean' = r.mean
              /\ std' = r.std
              /\ ret' = r.ret
              /\ out' = r.out
              /\ df' = IF r.out = None THEN df ELSE r.out[1]
    /\ pc' = "returned"
    /\ UNCHANGED <<op, ran, results, metric, before, seen, other>>

Standardize ==
    /\ pc = "running"
    /\ op = "standardize"
    /\ \E fault \in Faults :
          LET r == standardize(mean, std, df, fault)
          IN  /\ mean' = r.mean
              /\ std' = r.std
              /\ ret' = r.ret
              /\ out' = r.out
    /\ pc' = "returned"
    /\ UNCHANGED <<df, op, ran, results, metric, before, seen, other>>

ScalerTransform ==
    /\ pc = "running"
    /\ op = "transform"
    /\ \E fault \in Faults :
          LET r == ZScoreScaler_transform(mean, std, df, fault)
          IN  ret' = r.ret /\ out' = r.out
    /\ pc' = "returned"
    /\ UNCHANGED <<df, op, ran, results, metric, mean, std, before, seen, other>>

\* A variant of reset that clears the mean only.
Reset_keeps_std ==
    /\ pc = "running"
    /\ op = "reset"
    /\ mean' = None
    /\ std' = std
    /\ ret' = Ok
    /\ pc' = "returned"
    /\ UNCHANGED <<df, op, ran, results, out, metric, before, seen, other>>

Reset ==
    /\ pc = "running"
    /\ op = "reset"
    /\ mean' = None
    /\ std' = None
    /\ ret' = Ok
    /\ pc' = "returned"
    /\ UNCHANGED <<df, op, ran, results, out, metric, before, seen, other>>

\* A variant of the accessors that takes the field out of the scaler
\* (Option::take) instead of borrowing it.
Accessor_takes_the_field ==
    /\ pc = "running"
    /\ op \in {"mean", "std"}
    /\ out' = IF op = "mean" THEN mean ELSE std
    /\ mean' = IF op = "mean" THEN None ELSE mean
    /\ std' = IF op = "std" THEN None ELSE std
    /\ ret' = Ok
    /\ pc' = "returned"
    /\ UNCHANGED <<df, op, ran, results, metric, before, seen, other>>

Accessor ==
    /\ pc = "running"
    /\ op \in {"mean", "std"}
    /\ out' = IF op = "mean"
              THEN ZScoreScaler_mean([mean |-> mean, std |-> std])
              ELSE ZScoreScaler_std([mean |-> mean, std |-> std])
    /\ ret' = Ok
    /\ pc' = "returned"
    /\ UNCHANGED <<df, op, ran, results, metric, mean, std, before, seen, other>>

\* The caller takes the returned value; the scaler is ready for the next call.
Return ==
    /\ pc = "returned"
    /\ pc' = "idle"
    /\ op' = "idle"
    /\ df' = EmptyTable
    /\ ret' = Pending
    /\ out' = None
    /\ before' = NoSnapshot
    /\ UNCHANGED <<ran, results, metric, mean, std, seen, other>>

\* ZScoreScaler::new() or ZScoreScaler::default()
InitScaler ==
    /\ df = EmptyTable
    /\ op = "idle"
    /\ pc = "idle"
    /\ ran = <<>>
    /\ results = NoResults
    /\ ret = Pending
    /\ out = None
    /\ metric = ""
    /\ \E s \in {new, default} : mean = s.mean /\ std = s.std
    /\ before = NoSnapshot
    /\ seen = NothingSeen
    /\ other = NoOther

NextScaler ==
    \/ CallScaler
    \/ Standardize
    \/ ScalerTransform
    \/ Reset
    \/ Accessor
    \/ Return

SpecScaler == InitScaler /\ [][NextScaler]_vars

\* ------------------------------------------------------------------------
\* Repeated validation: a caller validates tables again and again, in either
\* mode, between calls of a scaler
\* ------------------------------------------------------------------------
ValidationModes == {"validate_dataframe", "validate_dataframe_parallel"}

\* The tables validated again: a first column that is valid, holds a NaN and
\* a null, is numeric but not floating, or is not numeric.
RevalidatedKinds ==
    {[dtype |-> "Float64", base |-> Num(0), last |-> Num(20)],
     [dtype |-> "Float64", base |-> NaN, last |-> Null],
     [dtype |-> "Int32", base |-> Num(0), last |-> Null],
     [dtype |-> "String", base |-> Str, last |-> Str]}

RevalidatedTables == TablesOf(RevalidatedKinds, ScalerRestKinds, ScalerHeights)

\* The table validated again is the first one validated; the other calls are
\* on the fixture of the scaler's tests.
CallRevalidate ==
    /\ pc = "idle"
    /\ op' \in ValidationModes
    /\ IF seen.table = None THEN df' \in RevalidatedTables
       ELSE df' \in {seen.table[1], create_valid_df}
    /\ pc' = "running"
    /\ UNCHANGED <<ran, results, ret, out, metric, mean, std, before, seen, other>>

\* Between validations the caller uses a scaler.
CallBetween ==
    /\ pc = "idle"
    /\ \/ op' \in {"standardize", "transform"} /\ df' = create_valid_df
       \/ op' = "reset" /\ df' = EmptyTable
    /\ pc' = "running"
    /\ before' = <<mean, std>>
    /\ UNCHANGED <<ran, results, ret, out, metric, mean, std, seen, other>>

\* The caller takes the returned value.  The history keeps what each mode
\* returned the first time for the first table validated.
RevalidationReturn ==
    /\ pc = "returned"
    /\ seen' =
          IF op \notin ValidationModes THEN seen
          ELSE IF seen.table = None
          THEN IF op = "validate_dataframe"
               THEN [table |-> Some(df), sequential |-> ret, parallel |-> Pending]
               ELSE [table |-> Some(df), sequential |-> Pending, parallel |-> ret]
          ELSE IF seen.table # Some(df) THEN seen
          ELSE IF op = "validate_dataframe" /\ seen.sequential = Pending
          THEN [seen EXCEPT !.sequential = ret]
          ELSE IF op = "validate_dataframe_parallel" /\ seen.parallel = Pending
          THEN [seen EXCEPT !.parallel = ret]
          ELSE seen
    /\ pc' = "idle"
    /\ op' = "idle"
    /\ df' = EmptyTable
    /\ ran' = <<>>
    /\ results' = NoResults
    /\ ret' = Pending
    /\ out' = None
    /\ before' = NoSnapshot
    /\ UNCHANGED <<metric, mean, std, other>>

NextRevalidation ==
    \/ CallRevalidate
    \/ SeqStep
    \/ ParStep
    \/ ParJoin
    \/ CallBetween
    \/ Standardize
    \/ ScalerTransform
    \/ Reset
    \/ RevalidationReturn

SpecRevalidation == InitScaler /\ [][NextRevalidation]_vars

\* C17: a validation of a table in a mode returns what the first validation
\* of that table in that mode returned, whatever ran in between: validations
\* of another table, in either mode, and standardize and reset of a scaler.
C17_IdempotentValidation ==
    (op \in ValidationModes /\ pc = "returned" /\ seen.table = Some(df)) =>
        /\ (op = "validate_dataframe" /\ seen.sequential # Pending) =>
              ret = seen.sequential
        /\ (op = "validate_dataframe_parallel" /\ seen.parallel # Pending) =>
              ret = seen.parallel

\* C17 witness: the second parallel validation of a table with a NaN and a
\* null ran the missing-value check first, on a scaler that was fitted in
\* between, and returned the NaN error of the first validation.
C17_Witness ==
    /\ op = "validate_dataframe_parallel"
    /\ pc = "returned"
    /\ seen.table = Some(df)
    /\ seen.parallel.variant = "NanValuesError"
    /\ ret = seen.parallel
    /\ ran[1] = 5
    /\ mean # None

\* ------------------------------------------------------------------------
\* Two scalers of one caller, given the same table
\* ------------------------------------------------------------------------
\* The tables the two scalers are called on: two rows in one column that is
\* well spread, nearly constant, constant or holds a NaN; or no column.
TwoScalerKinds ==
    {[dtype |-> "Float64", base |-> Num(0), last |-> Num(20)],
     [dtype |-> "Float64", base |-> Num(0), last |-> Num(5)],
     [dtype |-> "Float32", base |-> Num(0), last |-> Num(0)],
     [dtype |-> "Float64", base |-> Num(0), last |-> NaN]}

TwoScalerTables == TablesOf(TwoScalerKinds, {}, {2})

\* The caller calls standardize on both scalers with one table, or standardize
\* or reset on the first scaler alone.
CallTwoScalers ==
    /\ pc = "idle"
    /\ \/ op' \in {"standardize_both", "standardize"} /\ df' \in TwoScalerTables
       \/ op' = "reset" /\ df' = EmptyTable
    /\ pc' = "running"
    /\ before' = <<mean, std>>
    /\ other' = [other EXCEPT !.before = <<other.mean, other.std>>]
    /\ UNCHANGED <<ran, results, ret, out, metric, mean, std, seen>>

\* standardize on each of the two scalers, on the same table and with the
\* same behaviour of the collects.
StandardizeBoth ==
    /\ pc = "running"
    /\ op = "standardize_both"
    /\ \E fault \in Faults :
          LET r == standardize(mean, std, df, fault)
              q == standardize(other.mean, other.std, df, fault)
          IN  /\ mean' = r.mean
              /\ std' = r.std
              /\ ret' = r.ret
              /\ out' = r.out
              /\ other' = [other EXCEPT !.mean = q.mean, !.std = q.std,
                                        !.ret = q.ret, !.out = q.out]
    /\ pc' = "returned"
    /\ UNCHANGED <<df, op, ran, results, metric, before, seen>>

\* The caller takes the returned values.
TwoScalersReturn ==
    /\ pc = "returned"
    /\ pc' = "idle"
    /\ op' = "idle"
    /\ df' = EmptyTable
    /\ ret' = Pending
    /\ out' = None
    /\ before' = NoSnapshot
    /\ other' = [other EXCEPT !.before = NoSnapshot, !.ret = Pending,
                              !.out = None]
    /\ UNCHANGED <<ran, results, metric, mean, std, seen>>

NextTwoScalers ==
    \/ CallTwoScalers
    \/ StandardizeBoth
    \/ Standardize
    \/ Reset
    \/ TwoScalersReturn

SpecTwoScalers == InitScaler /\ [][NextTwoScalers]_vars

\* ------------------------------------------------------------------------
\* ZScoreTransformer (crate::feature_scaling::z_standardization): the scaler
\* that owns its table (ZScoreTransformer::new(df)); `df` is its field.
\* ------------------------------------------------------------------------
\* FeatureScaler::fit
fit(m0, s0, table, fault) ==
    LET v == validate_dataframe_utils(table)
    IN  IF v # Ok
        THEN [mean |-> m0, std |-> s0, ret |-> FromValidation(v)]
        ELSE IF fault = "mean"
        THEN [mean |-> m0, std |-> s0, ret |-> PolarsError]
        ELSE IF fault = "std"
        THEN [mean |-> Some(MeanRow(table)), std |-> s0, ret |-> PolarsError]
        ELSE [mean |-> Some(MeanRow(table)), std |-> Some(StdRow(table)),
              ret |-> Ok]

\* FeatureScaler::transform(&self): reads self.df only.
transform(table, fault) ==
    LET v == validate_dataframe_utils(table)
    IN  IF v # Ok THEN [ret |-> FromValidation(v), out |-> None]
        ELSE IF fault = "out" THEN [ret |-> PolarsError, out |-> None]
        ELSE [ret |-> Ok, out |-> Some(Standardized(table))]

\* Standardize::calculate_statistics (z_standardization.rs): no validation.
calculate_statistics(m0, s0, table, fault) ==
    IF fault = "mean"
    THEN [mean |-> m0, std |-> s0, ret |-> PolarsError]
    ELSE IF fault = "std"
    THEN [mean |-> Some(MeanRow(table)), std |-> s0, ret |-> PolarsError]
    ELSE [mean |-> Some(MeanRow(table)), std |-> Some(StdRow(table)),
          ret |-> Ok]

TransformerOps == {"fit", "transform", "fit_transform", "calculate_statistics"}

CallTransformer ==
    /\ pc = "idle"
    /\ \E o \in TransformerOps : op' = o
    /\ pc' = "running"
    /\ UNCHANGED <<df, ran, results, ret, out, metric, mean, std, before, seen, other>>

Fit ==
    /\ pc = "running"
    /\ op = "fit"
    /\ \E fault \in Faults :
          LET r == fit(mean, std, df, fault)
          IN  mean' = r.mean /\ std' = r.std /\ ret' = r.ret
    /\ pc' = "returned"
    /\ UNCHANGED <<df, op, ran, results, out, metric, before, seen, other>>

Transform ==
    /\ pc = "running"
    /\ op = "transform"
    /\ \E fault \in Faults :
          LET r == transform(df, fault)
          IN  ret' = r.ret /\ out' = r.out
    /\ pc' = "returned"
    /\ UNCHANGED <<df, op, ran, results, metric, mean, std, before, seen, other>>

\* FeatureScaler::fit_transform: self.fit()?; self.transform()
FitTransform ==
    /\ pc = "running"
    /\ op = "fit_transform"
    /\ \E fault \in Faults :
          LET f == fit(mean, std, df, fault)
              t == transform(df, fault)
          IN  /\ mean' = f.mean
              /\ std' = f.std
              /\ ret' = IF f.ret # Ok THEN f.ret ELSE t.ret
              /\ out' = IF f.ret # Ok THEN None ELSE t.out
    /\ pc' = "returned"
    /\ UNCHANGED <<df, op, ran, results, metric, before, seen, other>>

CalculateStatistics ==
    /\ pc = "running"
    /\ op = "calculate_statistics"
    /\ \E fault \in Faults :
          LET r == calculate_statistics(mean, std, df, fault)
          IN  mean' = r.mean /\ std' = r.std /\ ret' = r.ret
    /\ pc' = "returned"
    /\ UNCHANGED <<df, op, ran, results, out, metric, before, seen, other>>

\* The caller takes the returned value; the transformer keeps its table.
TransformerReturn ==
    /\ pc = "returned"
    /\ pc' = "idle"
    /\ op' = "idle"
    /\ ret' = Pending
    /\ out' = None
    /\ UNCHANGED <<df, ran, results, metric, mean, std, before, seen, other>>

\* ZScoreTransformer::new(df)
InitTransformer ==
    /\ df \in ScalerTables
    /\ op = "idle"
    /\ pc = "idle"
    /\ ran = <<>>
    /\ results = NoResults
    /\ ret = Pending
    /\ out = None
    /\ metric = ""
    /\ mean = None
    /\ std = None
    /\ before = NoSnapshot
    /\ seen = NothingSeen
    /\ other = NoOther

NextTransformer ==
    \/ CallTransformer
    \/ Fit
    \/ Transform
    \/ FitTransform
    \/ CalculateStatistics
    \/ TransformerReturn

SpecTransformer == InitTransformer /\ [][NextTransformer]_vars

\* ------------------------------------------------------------------------
\* Claims about the scalers (SpecScaler, SpecTransformer)
\* ------------------------------------------------------------------------
\* C4: transform called on a scaler whose mean and std are None returns
\* UninitializedScaler and no table.
C4_TransformUninitialized ==
    (op = "transform" /\ pc = "returned" /\ mean = None /\ std = None) =>
        ret.variant = "UninitializedScaler" /\ out = None

\* C5: a standardize call that returns an error leaves the scaler's mean and
\* std exactly as they were before the call.
C5_ErrorKeepsState ==
    [][(op = "standardize" /\ pc = "running" /\ pc' = "returned"
        /\ ret'.variant # "Ok")
       => (mean' = mean /\ std' = std)]_vars

\* C6: in every state of a scaler mean and std are both None or both Some.
C6_BothOrNeither == (mean = None) <=> (std = None)

\* A column of at least two rows that holds one repeated number: its sample
\* standard deviation is exactly 0.
SingleRepeatedValue(col) ==
    /\ Len(col.values) >= 2
    /\ \A r \in 1..Len(col.values) :
          col.values[r].k = "num" /\ col.values[r].v = col.values[1].v

\* A table that passes the five checks.
ValidTable(table) ==
    /\ table.height >= 1
    /\ \A i \in 1..Len(table.columns) :
          /\ IsFloat(table.columns[i].dtype)
          /\ \A r \in 1..table.height : table.columns[i].values[r].k = "num"

\* C7: standardize on a valid table with a column of a single repeated value
\* returns no table, and (unless the collaborator failed while computing the
\* statistics) returns the zero-standard-deviation error that lists the
\* columns of a single repeated value, that column among them.
C7_ZeroStdRejected ==
    (/\ op = "standardize"
     /\ pc = "returned"
     /\ ValidTable(df)
     /\ \E i \in 1..Len(df.columns) : SingleRepeatedValue(df.columns[i]))
    => /\ out = None
       /\ \/ ret = PolarsError
          \/ /\ ret.variant = "ZeroStandardDeviationError"
             /\ ret.cols =
                   join(names_of(SelectSeq(df.columns,
                                           LAMBDA col : SingleRepeatedValue(col))))

\* C7 witness: standardize returned the zero-standard-deviation error naming
\* c2 for a valid two-column table whose second column is constant.
C7_Witness ==
    /\ op = "standardize"
    /\ pc = "returned"
    /\ ValidTable(df)
    /\ Len(df.columns) = 2
    /\ ~SingleRepeatedValue(df.columns[1])
    /\ SingleRepeatedValue(df.columns[2])
    /\ ret.variant = "ZeroStandardDeviationError"
    /\ ret.cols = "c2"
    /\ out = None

\* A squared fraction in lowest terms, to compare two values.
RECURSIVE GCD(_, _)
GCD(a, b) == IF b = 0 THEN a ELSE GCD(b, a % b)
Reduced(c) ==
    IF c.k # "num" THEN c
    ELSE LET g == GCD(c.sq_num, c.sq_den)
         IN  [c EXCEPT !.sq_num = @ \div g, !.sq_den = @ \div g]

ColumnNamesOf(table) == [i \in 1..Len(table.columns) |-> table.columns[i].name]

\* sign * sqrt(n / d) as a value, 0 when n = 0.
ValueOfRoot(sign, n, d) ==
    Reduced([k |-> "num", sign |-> sign, sq_num |-> n, sq_den |-> d])

C14_ResetClears ==
    (op = "reset" /\ pc = "returned") =>
        /\ ret = Ok
        /\ mean = None
        /\ std = None
        /\ before = <<None, None>> => <<mean, std>> = before

\* C14 witness: reset returned on a scaler that held both statistics.
C14_Witness ==
    /\ op = "reset"
    /\ pc = "returned"
    /\ before[1] # None
    /\ before[2] # None
    /\ mean = None
    /\ std = None

\* C15: when validate_dataframe fails on the table, standardize returns that
\* error wrapped as ValidationError (same variant, shape and column list),
\* returns no table, and leaves mean and std as they were when it was called.
C15_ValidationFirst ==
    (op = "standardize" /\ pc = "returned" /\ validate_dataframe(df) # Ok) =>
        /\ ret.wrapped = "ValidationError"
        /\ ret.variant \in ListingVariants \cup {"EmptyDataFrameError"}
        /\ [ret EXCEPT !.wrapped = ""] = validate_dataframe(df)
        /\ out = None
        /\ <<mean, std>> = before

\* C15 witness: standardize on a scaler that holds statistics returned the
\* wrapped NaN error for a table whose second column is constant, and the
\* statistics are those held before.
C15_Witness ==
    /\ op = "standardize"
    /\ pc = "returned"
    /\ ret.variant = "NanValuesError"
    /\ ret.wrapped = "ValidationError"
    /\ Len(df.columns) = 2
    /\ SingleRepeatedValue(df.columns[2])
    /\ before[1] # None
    /\ before[2] # None
    /\ <<mean, std>> = before

\* The squared deviations of a column from its mean, times n^2:
\* sum over the cells of (n * x - sum)^2.
RECURSIVE ScaledDeviations(_, _, _)
ScaledDeviations(cells, n, total) ==
    IF cells = <<>> THEN 0
    ELSE (n * cells[1].v - total) * (n * cells[1].v - total)
            + ScaledDeviations(Tail(cells), n, total)

RECURSIVE Total(_)
Total(cells) == IF cells = <<>> THEN 0 ELSE cells[1].v + Total(Tail(cells))

\* C16: standardize returns an error and no table, or Ok and a table with the
\* column names, the column count and the row count of its argument, in which
\* every cell is (x - mean) / std of its column for the sample std (a null in
\* a one-row table, where the sample std is undefined); a table is returned
\* only for a valid argument without a constant column.
C16_NoPartialOutput ==
    (op = "standardize" /\ pc = "returned") =>
        \/ ret # Ok /\ out = None
        \/ /\ ret = Ok
           /\ out # None
           /\ ValidTable(df)
           /\ \A i \in 1..Len(df.columns) : ~SingleRepeatedValue(df.columns[i])
           /\ out[1].height = df.height
           /\ ColumnNamesOf(out[1]) = ColumnNamesOf(df)
           /\ \A i \in 1..Len(df.columns) :
                 /\ Len(out[1].columns[i].values) = df.height
                 /\ \A r \in 1..df.height :
                       LET xs == df.columns[i].values
                           n == Len(xs)
                           d == n * xs[r].v - Total(xs)
                           c == out[1].columns[i].values[r]
                       IN  IF n = 1 THEN c.k = "null"
                           ELSE Reduced(c) =
                                    ValueOfRoot(Sgn(d), d * d * (n - 1),
                                                ScaledDeviations(xs, n, Total(xs)))

\* C16 witness: standardize returned the standardized fixture: five rows, two
\* columns, the first cell of feature1 equal to -sqrt(8/5) = -1.2649.
C16_Witness ==
    /\ op = "standardize"
    /\ pc = "returned"
    /\ df = create_valid_df
    /\ ret = Ok
    /\ out # None
    /\ out[1].height = 5
    /\ Len(out[1].columns) = 2
    /\ Reduced(out[1].columns[1].values[1]) = ValueOfRoot(-1, 8, 5)

\* C19: after a standardize that returned Ok the stored mean of each column
\* is sum / n and the stored std is the sample standard deviation:
\* std^2 * (n - 1) = sum of squared deviations from the mean (std is null
\* for n = 1).  For the fixture (1.0 = 10 units) the means are 3 and 30 and
\* the squared stds 2.5 and 250.
C19_SampleStatistics ==
    (op = "standardize" /\ pc = "returned" /\ ret = Ok) =>
        /\ mean # None
        /\ std # None
        /\ ColumnNamesOf(mean[1]) = ColumnNamesOf(df)
        /\ ColumnNamesOf(std[1]) = ColumnNamesOf(df)
        /\ \A i \in 1..Len(df.columns) :
              LET xs == df.columns[i].values
                  n == Len(xs)
                  m == mean[1].columns[i].values[1]
                  s == std[1].columns[i].values[1]
              IN  /\ m.k = "num"
                  /\ m.num * n = m.den * Total(xs)
                  /\ IF n = 1 THEN s.k = "null"
                     ELSE /\ s.k = "num"
                          /\ s.sign >= 0
                          /\ Reduced(s) =
                                ValueOfRoot(s.sign,
                                            ScaledDeviations(xs, n, Total(xs)),
                                            n * n * (n - 1))
        /\ df = create_valid_df =>
              /\ mean[1].columns[1].values[1].num
                    = 30 * mean[1].columns[1].values[1].den
              /\ mean[1].columns[2].values[1].num
                    = 300 * mean[1].columns[2].values[1].den
              /\ std[1].columns[1].values[1].sq_num
                    = 250 * std[1].columns[1].values[1].sq_den
              /\ std[1].columns[2].values[1].sq_num
                    = 25000 * std[1].columns[2].values[1].sq_den

\* C19 witness: standardize returned Ok for the fixture and the scaler holds
\* the mean 3 and the squared std 2.5 of feature1.
C19_Witness ==
    /\ op = "standardize"
    /\ pc = "returned"
    /\ ret = Ok
    /\ df = create_valid_df
    /\ mean # None
    /\ std # None
    /\ mean[1].columns[1].values[1].num = 30 * mean[1].columns[1].values[1].den
    /\ Reduced(std[1].columns[1].values[1]) = ValueOfRoot(1, 250, 1)

\* C20: a scaler made by new() or default() holds no mean and no std, and the
\* accessors mean() and std() return the field they read as it is (None when
\* it is None, the stored one-row table otherwise) and leave the scaler as it
\* was.
C20_StartsUninitialized ==
    /\ mean = None /\ std = None
    /\ [](/\ (op = "mean" /\ pc = "returned") =>
                /\ (out = None <=> mean = None)
                /\ mean # None => out = Some(mean[1])
                /\ <<mean, std>> = before
          /\ (op = "std" /\ pc = "returned") =>
                /\ (out = None <=> std = None)
                /\ std # None => out = Some(std[1])
                /\ <<mean, std>> = before)

\* C20 witness: std() returned the stored std row of a scaler whose mean row
\* is another table.
C20_Witness ==
    /\ op = "std"
    /\ pc = "returned"
    /\ std # None
    /\ mean # None
    /\ mean # std
    /\ out = std

\* C21: a standardize that returns Ok on a scaler that already holds
\* statistics replaces them: the stored rows have the columns of the new
\* table only, by name, one value each, the mean and the sample std of that
\* table; state and output are those of the same call on a fresh scaler.
C21_Refit ==
    (/\ op = "standardize"
     /\ pc = "returned"
     /\ ret = Ok
     /\ before[1] # None
     /\ before[2] # None)
    => /\ mean # None
       /\ std # None
       /\ mean[1].height = 1
       /\ std[1].height = 1
       /\ ColumnNamesOf(mean[1]) = ColumnNamesOf(df)
       /\ ColumnNamesOf(std[1]) = ColumnNamesOf(df)
       /\ \A i \in 1..Len(df.columns) :
             LET xs == df.columns[i].values
                 n == Len(xs)
                 m == mean[1].columns[i].values
                 s == std[1].columns[i].values
             IN  /\ Len(m) = 1
                 /\ Len(s) = 1
                 /\ m[1].k = "num"
                 /\ m[1].num * n = m[1].den * Total(xs)
                 /\ n > 1 =>
                       Reduced(s[1]) =
                           ValueOfRoot(1, ScaledDeviations(xs, n, Total(xs)),
                                       n * n * (n - 1))
       /\ LET fresh == standardize(None, None, df, "none")
          IN  mean = fresh.mean /\ std = fresh.std /\ out = fresh.out

\* C21 witness: a scaler fitted on a table of two columns returned Ok for a
\* table of one column and holds one-column rows that differ from the old ones.
C21_Witness ==
    /\ op = "standardize"
    /\ pc = "returned"
    /\ ret = Ok
    /\ before[1] # None
    /\ before[2] # None
    /\ Len(before[1][1].columns) = 2
    /\ Len(before[2][1].columns) = 2
    /\ Len(df.columns) = 1
    /\ mean # None
    /\ Len(mean[1].columns) = 1
    /\ Len(std[1].columns) = 1
    /\ mean[1].columns[1] # before[1][1].columns[1]

\* C24: whenever standardize returns a table, the stored std of every column
\* is a number (not null, not NaN) with absolute value at least 1e-8; for a
\* valid table of one row standardize returns an error and no table.
C24_DefinedDenominators ==
    (op = "standardize" /\ pc = "returned") =>
        /\ out # None =>
              /\ std # None
              /\ \A i \in 1..Len(std[1].columns) :
                    LET s == std[1].columns[i].values[1]
                    IN  /\ s.k = "num"
                        /\ s.sq_num >= 100 * s.sq_den
        /\ (ValidTable(df) /\ df.height = 1) => (ret # Ok /\ out = None)

\* C27: a step of transform, mean() or std(), whatever it returns, leaves the
\* stored mean and std as they are.
C27_ReadOnlyCalls ==
    [][(op \in {"transform", "mean", "std"} /\ pc = "running")
       => (mean' = mean /\ std' = std)]_vars

\* C27 witness: transform returned a validation error on a scaler that holds
\* the statistics it held when transform was called.
C27_Witness ==
    /\ op = "transform"
    /\ pc = "returned"
    /\ ret.wrapped = "ValidationError"
    /\ mean # None
    /\ std # None
    /\ <<mean, std>> = before

\* ------------------------------------------------------------------------
\* Further claims about the validation pipeline (SpecValidation)
\* ------------------------------------------------------------------------
\* The error of the first check, in the declared order, that a table violates.
ExpectedVerdict(table) ==
    IF table.height = 0
    THEN [Ok EXCEPT !.variant = "EmptyDataFrameError", !.rows = 0,
                    !.columns = Len(table.columns)]
    ELSE LET order == <<"NonNumericError", "NanValuesError",
                        "InfiniteValuesError", "MissingValuesError">>
             violated == {i \in 1..Len(order) : Offenders(order[i], table) # <<>>}
         IN  IF violated = {} THEN Ok
             ELSE [Ok EXCEPT !.variant = order[Least(violated)],
                             !.cols = Listing(Offenders(order[Least(violated)],
                                                        table))]

\* C22: whatever the order in which the five checks run and finish,
\* validate_dataframe_parallel returns the error of the first check in the
\* declared order that the table violates, or Ok when it violates none.
C22_OrderIndependent ==
    (op = "validate_dataframe_parallel" /\ pc = "returned") =>
        ret = ExpectedVerdict(df)

\* C23 as stated: on a table with zero rows no NaN, infinity or missing-value
\* scan is executed, by validate_dataframe and by validate_dataframe_parallel.
C23_NoScanOnEmpty ==
    (op \in Sequential \cup {"validate_dataframe_parallel"} /\ df.height = 0) =>
        \A k \in 1..Len(ran) : ran[k] \notin {3, 4, 5}

\* C23, amended: on a table with zero rows validate_dataframe executes the
\* not-empty check and nothing else, and returns EmptyDataFrameError.
C23_NoScanOnEmptySequential ==
    (op \in Sequential /\ df.height = 0) =>
        /\ \A k \in 1..Len(ran) : ran[k] = 1
        /\ pc = "returned" =>
              /\ ran = <<1>>
              /\ ret.variant = "EmptyDataFrameError"

\* C23 witness: validate_dataframe returned EmptyDataFrameError for a table of
\* two floating columns and no rows after the not-empty check alone.
C23_Witness ==
    /\ op = "validate_dataframe"
    /\ pc = "returned"
    /\ df.height = 0
    /\ Len(df.columns) = 2
    /\ \A i \in 1..Len(df.columns) : IsFloat(df.columns[i].dtype)
    /\ ran = <<1>>
    /\ ret.variant = "EmptyDataFrameError"

C26_InputUntouched ==
    [][(/\ pc = "running"
        /\ op \in {"validate_dataframe", "validate_dataframe_parallel",
                   "standardize", "transform"})
       => df' = df]_vars

\* C26 witness: standardize returned a table that differs from the fixture
\* it was called on, and the fixture is still the caller's table.
C26_Witness ==
    /\ op = "standardize"
    /\ pc = "returned"
    /\ ret = Ok
    /\ out # None
    /\ out[1] # df
    /\ df = create_valid_df

\* ------------------------------------------------------------------------
\* Two scalers (SpecTwoScalers)
\* ------------------------------------------------------------------------
\* C28 as stated: two scalers in any two states that are given standardize on
\* the same table return the same result and end with equal mean and std.
C28_StateIndependent ==
    (op = "standardize_both" /\ pc = "returned") =>
        /\ ret = other.ret
        /\ out = other.out
        /\ mean = other.mean
        /\ std = other.std

\* C28, amended: the two scalers return the same result, and when that
\* result is a table they end with equal mean and std.
C28_SameResult ==
    (op = "standardize_both" /\ pc = "returned") =>
        /\ ret = other.ret
        /\ out = other.out
        /\ ret = Ok => (mean = other.mean /\ std = other.std)

\* C28 witness: two scalers fitted on different tables returned the same
\* table and hold the same statistics.
C28_Witness ==
    /\ op = "standardize_both"
    /\ pc = "returned"
    /\ ret = Ok
    /\ before[1] # None /\ before[2] # None
    /\ other.before[1] # None /\ other.before[2] # None
    /\ before # other.before
    /\ out # None
    /\ out = other.out
    /\ <<mean, std>> = <<other.mean, other.std>>
    /\ <<mean, std>> # before

====
